---- MODULE Spec2Model ----
(***************************************************************************)
(* Model of the adk_npl core: the resilient transport (NPLClient) with its *)
(* retry loop, token refresh and error taxonomy, the generated tools that  *)
(* wrap it, and the tool generator (NPLToolGenerator) with its caches.     *)
(***************************************************************************)
EXTENDS Integers, Sequences, FiniteSets, TLC

(***************************************************************************)
(* Bounds of the model                                                     *)
(***************************************************************************)
\* max_retries is drawn from 0..MaxRetriesBound
MaxRetriesBound == 3

\* the number of calls issued on the one NPLClient
MaxCalls == 2

\* the caller threads that share the NPLClient
Calls == {1, 2}

\* the clock runs from 0 to MaxTime seconds in steps of TimeStep
MaxTime == 300
TimeStep == 150

\* the number of operations applied to a Cache
MaxCacheOps == 4

\* the number of "/"-separated segments an OpenAPI path has after its prefix
MaxSegments == 4

\* the number of Cache operations each of the concurrent callers performs
MaxThreadOps == 2

\* the number of errors recorded in a MetricsCollector, and of its other updates
MaxRecorded == 102
MaxMetricOps == 1

\* the max_retries of a backoff loop is drawn from 0..MaxBackoffRetries
MaxBackoffRetries == 7

(***************************************************************************)
(* Values                                                                  *)
(***************************************************************************)
\* auth tokens are numbered; NoToken is None / the empty string
NoToken == 0
\* the token the client is constructed with ("expired_token" in the tests)
InitialToken == 1

\* the value of the session's Authorization header
NoHeader == <<>>
Bearer(token) == <<"Bearer", token>>

\* HTTP statuses a response may carry
Statuses == {200, 304, 400, 401, 429, 500, 503}
\* exceptions session.request may raise (all are requests.RequestException)
RequestExceptions == {"ConnectionError", "Timeout", "TooManyRedirects"}
\* what one session.request can do: return a response or raise an exception
\* (status 0: the exception carries no response)
Response(status_code) == [exc |-> "none", status |-> status_code]
Exception(name) == [exc |-> name, status |-> 0]
HTTPError(status_code) == [exc |-> "HTTPError", status |-> status_code]
NoOutcome == [exc |-> "none", status |-> 0]
Outcomes == {Response(st) : st \in Statuses}
            \cup {Exception(name) : name \in RequestExceptions}

\* what one invocation of the refresh callback can do
CallbackOutcomes == {"token", "raise"}

\* who called _make_request
Callers == {"request", "create_tool", "action_tool"}

NoStatus == -1
NoError == [type |-> "none", status_code |-> NoStatus, url |-> "none"]

VARIABLES
    auth_token,              \* NPLClient.auth_token
    authorization,           \* NPLClient.session.headers["Authorization"]
    max_retries,             \* NPLClient.max_retries
    token_refresh_callback,  \* TRUE iff a refresh callback is configured
    refresh_count,           \* invocations of the refresh callback so far
    begun,                   \* calls of _make_request begun so far
    calls,                   \* per caller thread: the state of its _make_request
    now,                     \* time.time()
    cache_ttl,               \* the cache_ttl NPLToolGenerator was constructed with
    cache,                   \* NPLToolGenerator.cache._cache (OpenAPI documents)
    tools_cache,             \* NPLToolGenerator._tools_cache (<<>>: None, else <<list>>)
    cache_time,              \* NPLToolGenerator._cache_time
    gen,                     \* the last call of generate_tools and its outcome
    cache_op,                \* the last operation on a Cache and what it returned
    route,                   \* an OpenAPI path entry and the tools compiled from it
    schemas,                 \* NPLToolGenerator._schemas (components.schemas)
    schema,                  \* the request body schema of the method being compiled
    func,                    \* the generated function: its closure and signature
    invoked,                 \* the last invocation of func and what it passed on
    backoff,                 \* a retry loop: its parameters, attempt and last sleep
    cache_threads,           \* the concurrent callers of one Cache, each in an operation
    collector                \* a MetricsCollector and what its last operation returned

client_vars == <<auth_token, authorization, max_retries, token_refresh_callback,
                 refresh_count, begun, calls>>
generator_vars == <<now, cache_ttl, cache, tools_cache, cache_time, gen>>
utils_vars == <<cache_op, route>>
compiler_vars == <<schemas, schema, func, invoked>>
support_vars == <<backoff, cache_threads, collector>>
vars == <<client_vars, generator_vars, utils_vars, compiler_vars, support_vars>>

(***************************************************************************)
(* retry.py                                                                *)
(***************************************************************************)
\* a classification that retries every error status
is_retryable_status_code_any_error(status_code) ==
    status_code >= 400

is_retryable_status_code(status_code) ==
    status_code >= 500 \/ status_code = 429

\* a classification that forgets timeouts
is_retryable_exception_no_timeout(e) ==
    IF e.status # 0
    THEN e.status >= 500 \/ e.status = 429
    ELSE e.exc \in {"ConnectionError"}

\* e is a requests.exceptions.RequestException
is_retryable_exception(e) ==
    IF e.status # 0
    THEN is_retryable_status_code(e.status)
    ELSE e.exc \in {"ConnectionError", "Timeout"}

\* delays are in hundredths of a second
DefaultInitialDelay == 100
DefaultExponentialBase == 2
DefaultMaxDelay == 6000

Min(a, b) == IF a <= b THEN a ELSE b

\* a delay that is not capped
backoff_delay_uncapped(initial_delay, exponential_base, max_delay, attempt) ==
    initial_delay * (exponential_base ^ attempt)

\* "delay = min(initial_delay * (exponential_base ** attempt), max_delay)"
backoff_delay(initial_delay, exponential_base, max_delay, attempt) ==
    Min(initial_delay * (exponential_base ^ attempt), max_delay)

\* the upper end of random.uniform(0, delay * 0.1)
jitter_bound(delay) == delay \div 10

\* values random.uniform(0, delay * 0.1) may return: both ends and the middle
JitterSamples(delay) ==
    {0, jitter_bound(delay) \div 2, jitter_bound(delay)}

\* no retry loop entered
NoBackoff ==
    [site |-> "none", max_retries |-> 0, initial_delay |-> 0,
     exponential_base |-> 0, max_delay |-> 0,
     pc |-> "idle",            \* idle, running, returned, raised
     attempt |-> 0,            \* the loop variable
     sleeps |-> 0,             \* time.sleep invocations
     prev_delay |-> 0,         \* the delay computed before the last one
     delay |-> 0,              \* the delay computed last
     jitter |-> 0]             \* the jitter drawn last

(***************************************************************************)
(* monitoring.py: MetricsCollector.  An error entry is the number of the   *)
(* record_error call that made it.                                         *)
(***************************************************************************)
\* self._max_errors
max_errors == 100
\* the measurements kept per histogram
max_latencies == 1000

\* lst[-n:] of Python for n >= 0: the last n elements, and all of them for
\* n = 0, as -0 is 0
LastN(lst, n) ==
    IF n = 0 \/ n >= Len(lst) THEN lst ELSE SubSeq(lst, Len(lst) - n + 1, Len(lst))

\* "if len(self._errors) > self._max_errors: self._errors = self._errors[-self._max_errors:]"
trim_errors(errors) ==
    IF Len(errors) > max_errors THEN LastN(errors, max_errors) ELSE errors

\* MetricsCollector.record_error
record_error(errors, entry) == trim_errors(Append(errors, entry))

\* reversed(lst)
Reversed(lst) == [i \in 1 .. Len(lst) |-> lst[Len(lst) - i + 1]]

\* MetricsCollector.get_errors: "list(reversed(self._errors[-limit:]))"
get_errors(errors, limit) == Reversed(LastN(errors, limit))

NoLimit == -1

\* MetricsCollector.__init__
NoCollector ==
    [errors |-> <<>>,          \* self._errors
     counters |-> 0,           \* increments held in self._counters
     histograms |-> 0,         \* measurements held in self._histograms
     recorded |-> 0,           \* record_error calls so far
     since_reset |-> 0,        \* record_error calls since the last reset
     op |-> "none",            \* the last operation
     limit |-> NoLimit,        \* the argument of get_errors, if it was the last
     got |-> <<>>]             \* what it returned

(***************************************************************************)
(* client.py                                                               *)
(***************************************************************************)
\* requests.Response.ok: raise_for_status raises for 4xx and 5xx only
ResponseOk(status_code) == ~(status_code >= 400 /\ status_code < 600)

\* the request URL each caller builds
UrlOf(caller) ==
    CASE caller = "create_tool" -> "/npl/pkg/Protocol/"
      [] caller = "action_tool" -> "/npl/pkg/Protocol/id/action"
      [] OTHER -> "/test"

\* a set_auth_token that leaves the session header as it was
set_auth_token_stale_header(token) ==
    [auth_token |-> token, authorization |-> authorization]

\* NPLClient.set_auth_token: the new (auth_token, Authorization header)
set_auth_token(token) ==
    [auth_token |-> token,
     authorization |-> IF token # NoToken THEN Bearer(token) ELSE NoHeader]

\* a _handle_response_error without the 503 branch
handle_response_error_no_503(status_code, url) ==
    [type |-> IF status_code = 401 THEN "TokenExpiredError" ELSE "NPLClientError",
     status_code |-> status_code,
     url |-> url]

\* NPLClient._handle_response_error: the error raised for a response
handle_response_error(status_code, url) ==
    [type |-> CASE status_code = 401 -> "TokenExpiredError"
                [] status_code = 503 -> "ServiceUnavailableError"
                [] OTHER -> "NPLClientError",
     status_code |-> status_code,
     url |-> url]

\* the attempts of the loop "for attempt in range(self.max_retries + 1)"
AttemptRange(n) == 0 .. n

\* an off-by-one retry test
RetriesRemainOffByOne(attempt, n) == attempt < n - 1

\* "attempt < self.max_retries": another attempt is allowed
RetriesRemain(attempt, n) == attempt < n

\* the class of an outcome, in the words of the documentation: connection
\* errors and timeouts are network failures, 429 and 5xx are retryable statuses
ClassOf(out) ==
    CASE out.exc \in {"ConnectionError", "Timeout"} -> "network"
      [] out.exc # "none" -> "other_exception"
      [] out.status = 401 -> "401"
      [] out.status = 429 \/ out.status \in 500 .. 599 -> "retryable_status"
      [] out.status >= 200 /\ out.status < 300 -> "2xx"
      [] out.status >= 300 /\ out.status < 400 -> "3xx"
      [] OTHER -> "4xx"

IdleCall ==
    [pc |-> "idle",            \* idle, running, returned, raised
     caller |-> "request",
     attempt |-> 0,            \* the loop variable
     requests |-> 0,           \* session.request invocations
     responses |-> 0,          \* those that returned a response
     refreshes |-> 0,          \* invocations of the refresh callback
     cb_token |-> NoToken,     \* what the callback last returned to this call
     sent |-> NoHeader,        \* Authorization header of the last request
     refreshed |-> NoToken,    \* cb_token when the last request was sent
     via401 |-> FALSE,         \* the last request retried a 401 after refresh
     last |-> NoOutcome,       \* outcome of the last request
     history |-> {},           \* classes of all outcomes so far
     calls_metric |-> 0,       \* increments of npl.api.calls
     latency_metric |-> 0,     \* observations of npl.api.latency
     errors_metric |-> 0,      \* increments of npl.api.errors
     error_records |-> 0,      \* metrics.record_error invocations
     retries_metric |-> 0,     \* increments of npl.api.retries
     refresh_metric |-> 0,     \* increments of npl.api.token_refreshes
     sleeps |-> 0,             \* time.sleep invocations
     slept |-> FALSE,          \* time.sleep was invoked since the last request
     error |-> NoError,        \* the exception _make_request raised
     tool_result |-> {}]       \* keys of the dict the generated tool returned

\* the token the callback returns at its (n+1)-th invocation: a fresh one
FreshToken(n) == n + 2

(***************************************************************************)
(* tools.py: the impl closures of the generated tools                      *)
(***************************************************************************)
\* _create_schema_aware_create_function.impl: keys of the returned dict
create_impl_result(raised) ==
    IF raised THEN {"error", "hint"} ELSE {"result"}

\* _create_action_execution_function.impl: keys of the returned dict
action_impl_result(raised) ==
    IF raised THEN {"error"} ELSE {"result"}

\* what the caller of _make_request makes of its end; json_ok: response.json()
\* of create_protocol / execute_action does not raise
ToolResult(caller, raised, json_ok) ==
    CASE caller = "create_tool" -> create_impl_result(raised \/ ~json_ok)
      [] caller = "action_tool" -> action_impl_result(raised \/ ~json_ok)
      [] OTHER -> {}

(***************************************************************************)
(* NPLClient._make_request, one iteration of its loop                      *)
(***************************************************************************)
\* the call ends by raising err
Raise(k, err) ==
    [k EXCEPT !.pc = "raised", !.error = err,
              !.tool_result = ToolResult(k.caller, TRUE, TRUE)]

\* the call ends by returning the response
Return(k, json_ok) ==
    [k EXCEPT !.pc = "returned",
              !.tool_result = ToolResult(k.caller, FALSE, json_ok)]

\* last_exception is set: an earlier iteration went through the except clause
LastExceptionSet(k) ==
    k.history \cap {"network", "other_exception", "retryable_status"} # {}

\* NPLClientError(f"Request failed ...", url=url)
TransportError(k) ==
    [type |-> "NPLClientError", status_code |-> NoStatus, url |-> UrlOf(k.caller)]

\* "continue": the next iteration, or the code after the loop
Continue(k) ==
    IF k.attempt + 1 \in AttemptRange(max_retries)
    THEN [k EXCEPT !.attempt = @ + 1]
    ELSE IF LastExceptionSet(k)
         THEN Raise(k, TransportError(k))
         ELSE Return(k, FALSE)

\* metrics.increment("npl.api.errors", ...) and metrics.record_error(...)
RecordError(k) ==
    [k EXCEPT !.errors_metric = @ + 1, !.error_records = @ + 1]

\* a response path that counts the call but records no latency
RecordCallNoLatency(k) ==
    [k EXCEPT !.calls_metric = @ + 1]

\* the metrics recorded after session.request returned a response
RecordCall(k) ==
    [k EXCEPT !.calls_metric = @ + 1, !.latency_metric = @ + 1]

\* a retry that goes on at once
NoSleep(k) == k

\* "time.sleep(delay + jitter)"
Sleep(k) == [k EXCEPT !.sleeps = @ + 1, !.slept = TRUE]

\* an except clause that forgets the npl.api.retries counter
ExceptClauseNoRetryMetric(k, e) ==
    IF RetriesRemain(k.attempt, max_retries) /\ is_retryable_exception(e)
    THEN Continue(Sleep(RecordError(k)))
    ELSE IF k.attempt >= max_retries
         THEN Raise(RecordError(k), TransportError(k))
         ELSE Raise(RecordError(k),
                    [type |-> e.exc, status_code |-> NoStatus, url |-> "none"])

\* the except clause for requests.exceptions.RequestException e
ExceptClause(k, e) ==
    IF RetriesRemain(k.attempt, max_retries) /\ is_retryable_exception(e)
    THEN Continue(Sleep([RecordError(k) EXCEPT !.retries_metric = @ + 1]))
    ELSE IF k.attempt >= max_retries
         THEN Raise(RecordError(k), TransportError(k))
         ELSE Raise(RecordError(k),
                    [type |-> e.exc, status_code |-> NoStatus, url |-> "none"])

\* the exception of a raising callback propagates as it is
CallbackRaised(k) ==
    Raise([k EXCEPT !.refreshes = @ + 1],
          [type |-> "CallbackError", status_code |-> NoStatus, url |-> "none"])

\* a 401 branch that does not look at the retry budget
RefreshOn401Unbounded(k, st) ==
    st = 401 /\ token_refresh_callback

\* the 401 branch is taken: refresh and retry
RefreshOn401(k, st) ==
    st = 401 /\ token_refresh_callback /\ RetriesRemain(k.attempt, max_retries)

\* the code after session.request returned a response with status st;
\* n: callback invocations so far, cb: what the next invocation does;
\* set: the argument of the set_auth_token call made, if any
HandleResponse(k, st, n, cb, json_ok) ==
    IF RefreshOn401(k, st)
    THEN IF cb = "raise"
         THEN [call |-> CallbackRaised([k EXCEPT !.refresh_metric = @ + 1]),
               set |-> <<>>]
         ELSE [call |-> Continue([k EXCEPT !.refresh_metric = @ + 1,
                                           !.refreshes = @ + 1,
                                           !.cb_token = FreshToken(n)]),
               set |-> <<FreshToken(n)>>]
    ELSE IF ~ResponseOk(st)
         THEN IF is_retryable_status_code(st) /\ RetriesRemain(k.attempt, max_retries)
              THEN [call |-> ExceptClause(k, HTTPError(st)), set |-> <<>>]
              ELSE [call |-> Raise(RecordError(k),
                                   handle_response_error(st, UrlOf(k.caller))),
                    set |-> <<>>]
         ELSE [call |-> Return(k, json_ok), set |-> <<>>]

\* what an engine on which exactly the initial token has expired answers
ExpiryServerOutcome(header) ==
    IF header \in {NoHeader, Bearer(InitialToken)} THEN 401 ELSE 200

\* "if attempt > 0 and self.token_refresh_callback": refresh before the request
RefreshBeforeRequest(k) ==
    k.attempt > 0 /\ token_refresh_callback

(***************************************************************************)
(* Initial state: NPLClient.__init__                                       *)
(***************************************************************************)
ClientInit ==
    /\ auth_token \in {NoToken, InitialToken}
    /\ authorization = IF auth_token # NoToken THEN Bearer(auth_token) ELSE NoHeader
    /\ max_retries \in 0 .. MaxRetriesBound
    /\ token_refresh_callback \in BOOLEAN
    /\ refresh_count = 0
    /\ begun = 0
    /\ calls = [c \in Calls |-> IdleCall]

(***************************************************************************)
(* Actions                                                                 *)
(***************************************************************************)
\* a caller enters _make_request, directly or through a generated tool;
\* concurrent: it may do so while another caller's call is in progress
Begin(c, concurrent) ==
    /\ calls[c].pc = "idle"
    /\ begun < MaxCalls
    /\ concurrent \/ \A d \in Calls : calls[d].pc = "idle"
    /\ begun' = begun + 1
    /\ \E caller \in Callers :
         calls' = [calls EXCEPT ![c] = [IdleCall EXCEPT !.pc = "running",
                                                        !.caller = caller]]
    /\ UNCHANGED <<auth_token, authorization, max_retries, token_refresh_callback,
                   refresh_count>>
    /\ UNCHANGED generator_vars
    /\ UNCHANGED <<utils_vars, compiler_vars, support_vars>>

\* one iteration of the loop of _make_request; expiry_server: the engine
\* answers as one on which exactly the initial token has expired, and the
\* callback returns a token
Iteration(c, expiry_server) ==
    /\ calls[c].pc = "running"
    /\ LET k == calls[c]
           pre == RefreshBeforeRequest(k)
       IN \E cb1 \in IF pre /\ ~expiry_server THEN CallbackOutcomes ELSE {"token"} :
           IF pre /\ cb1 = "raise"
           THEN /\ calls' = [calls EXCEPT ![c] = CallbackRaised(k)]
                /\ refresh_count' = refresh_count + 1
                /\ UNCHANGED <<auth_token, authorization>>
           ELSE LET cl1 == IF pre THEN set_auth_token(FreshToken(refresh_count))
                           ELSE [auth_token |-> auth_token,
                                 authorization |-> authorization]
                    k1 == IF pre THEN [k EXCEPT !.refreshes = @ + 1,
                                                !.cb_token = FreshToken(refresh_count)]
                          ELSE k
                    n1 == IF pre THEN refresh_count + 1 ELSE refresh_count
                IN \E out \in IF expiry_server
                              THEN {Response(ExpiryServerOutcome(cl1.authorization))}
                              ELSE Outcomes :
                    LET k2 == [k1 EXCEPT !.requests = @ + 1,
                                         !.responses = IF out.exc = "none"
                                                       THEN @ + 1 ELSE @,
                                         !.slept = FALSE,
                                         !.sent = cl1.authorization,
                                         !.refreshed = k1.cb_token,
                                         !.via401 = (k.last = Response(401)),
                                         !.last = out,
                                         !.history = @ \cup {ClassOf(out)}]
                        refresh == out.exc = "none" /\ RefreshOn401(k2, out.status)
                        returns == out.exc = "none" /\ ~refresh /\ ResponseOk(out.status)
                    IN \E cb2 \in IF refresh /\ ~expiry_server
                                  THEN CallbackOutcomes ELSE {"token"},
                          json_ok \in IF returns /\ k.caller # "request"
                                      THEN BOOLEAN ELSE {TRUE} :
                        LET r == IF out.exc # "none"
                                 THEN [call |-> ExceptClause(k2, out), set |-> <<>>]
                                 ELSE HandleResponse(RecordCall(k2), out.status, n1,
                                                     cb2, json_ok)
                            cl2 == IF r.set = <<>> THEN cl1
                                   ELSE set_auth_token(r.set[1])
                        IN /\ calls' = [calls EXCEPT ![c] = r.call]
                           /\ refresh_count' = IF refresh THEN n1 + 1 ELSE n1
                           /\ auth_token' = cl2.auth_token
                           /\ authorization' = cl2.authorization
    /\ UNCHANGED <<max_retries, token_refresh_callback, begun>>
    /\ UNCHANGED generator_vars
    /\ UNCHANGED <<utils_vars, compiler_vars, support_vars>>

(***************************************************************************)
(* utils.py: Cache and CachedItem                                          *)
(***************************************************************************)
\* no entry under a key
NoItem == [value |-> "none", created_at |-> 0, ttl_seconds |-> 0]

\* CachedItem.__init__
CachedItem(value, ttl_seconds, t) ==
    [value |-> value, created_at |-> t, ttl_seconds |-> ttl_seconds]

\* an expiry test that already fails an entry whose age equals its TTL
is_expired_at_ttl(item, t) == t - item.created_at >= item.ttl_seconds

\* CachedItem.is_expired at time t
is_expired(item, t) == t - item.created_at > item.ttl_seconds

\* Cache.get at time t: the value returned ("none": None) and the map left
Cache_get(c, key, t) ==
    IF c[key] = NoItem
    THEN [value |-> "none", cache |-> c]
    ELSE IF is_expired(c[key], t)
         THEN [value |-> "none", cache |-> [c EXCEPT ![key] = NoItem]]
         ELSE [value |-> c[key].value, cache |-> c]

\* the ttl argument None of Cache.set (0 is falsy as well)
NoTTL == 0

\* Cache.set at time t: "ttl = ttl or self.default_ttl"
Cache_set(c, key, value, ttl, default_ttl, t) ==
    [c EXCEPT ![key] = CachedItem(value, IF ttl # NoTTL THEN ttl ELSE default_ttl, t)]

\* Cache.invalidate
Cache_invalidate(c, key) ==
    IF c[key] # NoItem THEN [c EXCEPT ![key] = NoItem] ELSE c

\* Cache.clear
Cache_clear(c) == [key \in DOMAIN c |-> NoItem]

\* no operation on the cache yet
NoCacheOp == [n |-> 0, op |-> "none", key |-> "none", value |-> "none", item |-> NoItem]

\* a caller that is in no operation of the Cache
NoThread ==
    [pc |-> "idle",            \* idle, get_read, get_expired, get_del,
                               \* invalidate_del, done
     op |-> "none",
     key |-> "none",
     item |-> NoItem,          \* the local variable item of get
     result |-> "none",        \* what get returned ("none": None)
     returned_at |-> 0,        \* when get returned
     raised |-> FALSE,         \* the operation raised KeyError
     ops |-> 0]                \* operations begun

\* no caller is in an operation; written: the (key, value) pairs set so far
NoThreads == [of |-> [th \in Calls |-> NoThread], written |-> {}]

\* "key in self._cache"
Cache_contains(c, key) == c[key] # NoItem

\* the operation returns value
ThreadReturns(th, value, t) ==
    [th EXCEPT !.pc = "done", !.result = value, !.returned_at = t]

\* the operation raises KeyError
ThreadRaises(th) ==
    [th EXCEPT !.pc = "done", !.raised = TRUE]

(***************************************************************************)
(* utils.py: the classification of OpenAPI paths.  A path is the sequence  *)
(* path.split("/") of its segments: "/npl/p1/Proto/" is                    *)
(* <<"", "npl", "p1", "Proto", "">>.                                       *)
(***************************************************************************)
\* None as a protocol or action name
NoName == "none"

\* path.startswith(f"/npl/{package}/")
StartsWithPackagePrefix(path, package) ==
    /\ Len(path) >= 4
    /\ SubSeq(path, 1, 3) = <<"", "npl", package>>

\* "if p and p != '-'"
IsPart(p) == p # "" /\ p # "-"

\* parse_openapi_path: (protocol_name, action_name)
parse_openapi_path(path, package) ==
    IF ~StartsWithPackagePrefix(path, package)
    THEN [protocol |-> NoName, action |-> NoName]
    ELSE LET parts == SelectSeq(SubSeq(path, 4, Len(path)), IsPart)
         IN IF parts = <<>>
            THEN [protocol |-> NoName, action |-> NoName]
            ELSE IF Len(parts) = 1
                 THEN [protocol |-> parts[1], action |-> NoName]
                 ELSE IF Len(parts) >= 3
                      THEN [protocol |-> parts[1], action |-> parts[Len(parts)]]
                      ELSE [protocol |-> parts[1], action |-> NoName]

is_protocol_creation_path(path, package) ==
    LET parsed == parse_openapi_path(path, package)
    IN parsed.protocol # NoName /\ parsed.action = NoName

is_action_execution_path(path, package) ==
    LET parsed == parse_openapi_path(path, package)
    IN parsed.protocol # NoName /\ parsed.action # NoName

\* the body of the loop over spec["paths"] in _generate_tools_for_package:
\* the tools appended for one path and its methods
PathTools(path, methods, package) ==
    IF "post" \notin methods
    THEN <<>>
    ELSE IF is_protocol_creation_path(path, package)
         THEN <<[package |-> package, op |-> "create",
                 protocol |-> parse_openapi_path(path, package).protocol,
                 action |-> NoName]>>
         ELSE IF is_action_execution_path(path, package)
              THEN <<[package |-> package, op |-> "action",
                      protocol |-> parse_openapi_path(path, package).protocol,
                      action |-> parse_openapi_path(path, package).action]>>
              ELSE <<>>

(***************************************************************************)
(* tools.py: schemas, parameter descriptors and the synthesized signature. *)
(* A property or parameter name is the sequence name.split("_") of its     *)
(* pieces: "a_b" is <<"a", "b">>; joining names with "_" is \o.            *)
(***************************************************************************)
\* the pieces the names of the model are made of, in string order
AtomOrder ==
    <<"a", "b", "buyer", "department", "id", "instance", "organization", "party",
      "seller">>
Rank(atom) == CHOOSE i \in 1 .. Len(AtomOrder) : AtomOrder[i] = atom

\* m < n as Python compares the strings ("_" sorts before every letter)
RECURSIVE NameLess(_, _)
NameLess(m, n) ==
    IF m = <<>> THEN n # <<>>
    ELSE IF n = <<>> THEN FALSE
    ELSE IF Head(m) = Head(n) THEN NameLess(Tail(m), Tail(n))
    ELSE Rank(Head(m)) < Rank(Head(n))

\* the property name "@parties"
PartiesKey == <<"@parties">>

\* a prop_def without "$ref"
NoRef == "none"

\* {}: what _resolve_ref returns for an unknown schema name
EmptySchema ==
    [type |-> "none", has_properties |-> FALSE, properties |-> <<>>,
     required |-> {}, enum |-> FALSE]

\* NPLToolGenerator._resolve_ref on "#/components/schemas/<ref>"
resolve_ref(ref, defs) ==
    IF ref \in DOMAIN defs THEN defs[ref] ELSE EmptySchema

\* NPLToolGenerator._map_openapi_type
map_openapi_type(prop_def) ==
    CASE prop_def.type = "string" -> "str"
      [] prop_def.type = "number" -> "float"
      [] prop_def.type = "integer" -> "int"
      [] prop_def.type = "boolean" -> "bool"
      [] prop_def.type = "array" -> "list"
      [] prop_def.type = "object" -> "dict"
      [] OTHER -> "str"

\* a parameter descriptor
Descriptor(name, type, required, nullable) ==
    [name |-> name, type |-> type, required |-> required, nullable |-> nullable]

\* NPLToolGenerator._flatten_schema(schema, prefix), over the properties
\* props of the schema in their order; defs: self._schemas
RECURSIVE flatten_properties(_, _, _, _)
flatten_properties(props, required, prefix, defs) ==
    IF props = <<>>
    THEN <<>>
    ELSE LET prop_name == Head(props).name
             prop_def == Head(props).def
             full_name == prefix \o prop_name
             is_nullable == prop_def.nullable
             ref_schema == resolve_ref(prop_def.ref, defs)
             params ==
                 IF prop_name = PartiesKey
                 THEN <<>>
                 ELSE IF prop_def.ref # NoRef
                      THEN IF ref_schema.type = "object" /\ ref_schema.has_properties
                           THEN flatten_properties(ref_schema.properties,
                                                   ref_schema.required, full_name, defs)
                           ELSE <<Descriptor(full_name, "str",
                                             prop_name \in required /\ ~is_nullable,
                                             is_nullable)>>
                      ELSE <<Descriptor(full_name, map_openapi_type(prop_def),
                                        prop_name \in required /\ ~is_nullable,
                                        is_nullable)>>
         IN params \o flatten_properties(Tail(props), required, prefix, defs)

flatten_schema(sch, defs) ==
    flatten_properties(sch.properties, sch.required, <<>>, defs)

\* the prop_def under "@parties", {} if the schema has none
PartiesRef(sch) ==
    LET at == {i \in 1 .. Len(sch.properties) : sch.properties[i].name = PartiesKey}
    IN IF at = {} THEN NoRef ELSE sch.properties[CHOOSE i \in at : TRUE].def.ref

\* NPLToolGenerator._extract_parties
extract_parties(sch, defs) ==
    IF PartiesRef(sch) = NoRef
    THEN <<>>
    ELSE LET parties_schema == resolve_ref(PartiesRef(sch), defs)
         IN [i \in 1 .. Len(parties_schema.properties) |->
                [name |-> parties_schema.properties[i].name,
                 required |-> parties_schema.properties[i].name
                                  \in parties_schema.required]]

\* "required and not nullable": the parameter gets no default
IsRequiredParam(p) == p.required /\ ~p.nullable

\* a sort key without the required-first component
SortKeyLessEqByNameOnly(p, q) == ~NameLess(q.name, p.name)

\* key(p) <= key(q) for the sort key (not required-and-non-nullable, name)
SortKeyLessEq(p, q) ==
    \/ IsRequiredParam(p) /\ ~IsRequiredParam(q)
    \/ /\ IsRequiredParam(p) = IsRequiredParam(q)
       /\ ~NameLess(q.name, p.name)

\* x put behind the elements of a sorted list whose key is not greater
RECURSIVE InsertSorted(_, _)
InsertSorted(x, sorted) ==
    IF sorted = <<>> THEN <<x>>
    ELSE IF SortKeyLessEq(Head(sorted), x)
         THEN <<Head(sorted)>> \o InsertSorted(x, Tail(sorted))
         ELSE <<x>> \o sorted

\* sorted(param_specs, key=...): Python's sort is stable
RECURSIVE sorted_specs(_)
sorted_specs(param_specs) ==
    IF param_specs = <<>> THEN <<>>
    ELSE InsertSorted(param_specs[Len(param_specs)],
                      sorted_specs(SubSeq(param_specs, 1, Len(param_specs) - 1)))

\* exec of a def with two parameters of one name raises SyntaxError
HasDuplicateNames(specs) ==
    \E i, j \in 1 .. Len(specs) : i # j /\ specs[i].name = specs[j].name

\* no function generated
NoFunc ==
    [status |-> "none", op |-> "none", params |-> <<>>, parties |-> <<>>,
     sorted_specs |-> <<>>, signature |-> <<>>]

\* create_typed_function: the sorted specs and the parameter list
\* "name: type" / "name: type = None" of the generated def
create_typed_function(op, params, parties, param_specs) ==
    LET specs == sorted_specs(param_specs)
    IN IF HasDuplicateNames(specs)
       THEN [NoFunc EXCEPT !.status = "raised", !.op = op, !.params = params,
                           !.parties = parties]
       ELSE [status |-> "created", op |-> op, params |-> params, parties |-> parties,
             sorted_specs |-> specs,
             signature |-> [i \in 1 .. Len(specs) |->
                               [name |-> specs[i].name,
                                type |-> specs[i].type,
                                default_none |-> ~IsRequiredParam(specs[i])]]]

\* party parameters that are always required
RECURSIVE party_params_all_required(_)
party_params_all_required(parties) ==
    IF parties = <<>> THEN <<>>
    ELSE <<Descriptor(parties[1].name \o <<"organization">>, "str", TRUE, FALSE),
           Descriptor(parties[1].name \o <<"department">>, "str", TRUE, FALSE)>>
         \o party_params_all_required(Tail(parties))

\* the two parameter specs added for each party
RECURSIVE party_params(_)
party_params(parties) ==
    IF parties = <<>> THEN <<>>
    ELSE <<Descriptor(parties[1].name \o <<"organization">>, "str",
                      parties[1].required, FALSE),
           Descriptor(parties[1].name \o <<"department">>, "str",
                      parties[1].required, FALSE)>>
         \o party_params(Tail(parties))

\* NPLToolGenerator._create_schema_aware_create_function
create_schema_aware_create_function(sch, defs) ==
    LET params == flatten_schema(sch, defs)
        parties == extract_parties(sch, defs)
    IN create_typed_function("create", params, parties,
                             party_params(parties) \o params)

\* the parameters every action function has
ActionBaseParams ==
    <<Descriptor(<<"instance", "id">>, "str", TRUE, FALSE),
      Descriptor(<<"party">>, "str", FALSE, TRUE)>>

\* NPLToolGenerator._create_action_execution_function
create_action_execution_function(sch, defs) ==
    LET action_params == IF sch.properties # <<>> THEN flatten_schema(sch, defs)
                         ELSE <<>>
    IN create_typed_function("action", action_params, <<>>,
                             ActionBaseParams \o action_params)

(***************************************************************************)
(* tools.py: a call of a generated function.  kwargs is the ordered dict   *)
(* of <<name, value>> pairs; a JSON object is the set of its leaves, each  *)
(* the path of keys to it and its value (a key is a name, see above).      *)
(***************************************************************************)
\* Python's None, as an argument or a JSON null
None == "None"

\* "if value": None and the empty string are falsy
Truthy(value) == value # None /\ value # ""

\* the body of the generated def: "if name is not None: kwargs[name] = name",
\* and for a nullable parameter "else: kwargs[name] = None";
\* args: the value bound to each parameter of specs, None if left out
RECURSIVE build_kwargs(_, _)
build_kwargs(specs, args) ==
    IF specs = <<>> THEN <<>>
    ELSE (IF Head(args) # None THEN <<[name |-> Head(specs).name, value |-> Head(args)]>>
          ELSE IF Head(specs).nullable
               THEN <<[name |-> Head(specs).name, value |-> None]>>
               ELSE <<>>)
         \o build_kwargs(Tail(specs), Tail(args))

\* kwargs.get(key, None)
kwargs_get(kwargs, key) ==
    LET at == {i \in 1 .. Len(kwargs) : kwargs[i].name = key}
    IN IF at = {} THEN None ELSE kwargs[CHOOSE i \in at : TRUE].value

\* kwargs after kwargs.pop(key, None) for every key of keys
kwargs_pop(kwargs, keys) ==
    LET Kept(item) == item.name \notin keys
    IN SelectSeq(kwargs, Kept)

\* key.split('_'): one key for each piece of the name
Split(name) == [i \in 1 .. Len(name) |-> <<name[i]>>]

\* path p is a prefix of path q
IsPrefix(p, q) == Len(p) <= Len(q) /\ SubSeq(q, 1, Len(p)) = p

\* the walk "for part in parts[:-1]: ... current = current[part]" meets a
\* value that is not a dict: TypeError
WalkRaises(data, parts) ==
    \E item \in data : Len(item.path) < Len(parts) /\ IsPrefix(item.path, parts)

\* the walk followed by "current[parts[-1]] = value"
WalkSet(data, parts, value) ==
    {item \in data : ~IsPrefix(parts, item.path)}
        \cup {[path |-> parts, value |-> value]}

\* the data being built, or the exception raised on the way
Building(data) == [raised |-> FALSE, data |-> data]
Raised == [raised |-> TRUE, data |-> {}]

\* "for param in params: if param.get('nullable'): ..." of the creation impl
RECURSIVE include_nullable(_, _, _)
include_nullable(params, kwargs, acc) ==
    IF params = <<>> \/ acc.raised THEN acc
    ELSE IF ~Head(params).nullable
         THEN include_nullable(Tail(params), kwargs, acc)
         ELSE LET parts == Split(Head(params).name)
              IN include_nullable(
                     Tail(params), kwargs,
                     IF WalkRaises(acc.data, parts) THEN Raised
                     ELSE Building(WalkSet(acc.data, parts,
                                           kwargs_get(kwargs, Head(params).name))))

\* "for key, value in kwargs.items(): if value is None: continue ..."
RECURSIVE unflatten_rest(_, _)
unflatten_rest(kwargs, acc) ==
    IF kwargs = <<>> \/ acc.raised THEN acc
    ELSE IF Head(kwargs).value = None
         THEN unflatten_rest(Tail(kwargs), acc)
         ELSE LET parts == Split(Head(kwargs).name)
              IN unflatten_rest(
                     Tail(kwargs),
                     IF WalkRaises(acc.data, parts) THEN Raised
                     ELSE Building(WalkSet(acc.data, parts, Head(kwargs).value)))

\* "for party in parties: ... if org_val and dept_val: parties_dict[...] = ..."
build_parties(parties, kwargs) ==
    {[role |-> parties[i].name,
      organization |-> <<kwargs_get(kwargs, parties[i].name \o <<"organization">>)>>,
      department |-> <<kwargs_get(kwargs, parties[i].name \o <<"department">>)>>] :
        i \in {j \in 1 .. Len(parties) :
                  /\ Truthy(kwargs_get(kwargs, parties[j].name \o <<"organization">>))
                  /\ Truthy(kwargs_get(kwargs, parties[j].name \o <<"department">>))}}

\* the party keys popped from kwargs
PartyKeys(parties) ==
    {parties[i].name \o <<claim>> :
        i \in 1 .. Len(parties), claim \in {"organization", "department"}}

\* no call of the function yet
NoInvocation ==
    [status |-> "none", args |-> <<>>, parties |-> {}, data |-> {},
     instance_id |-> None, party |-> None]

\* _create_schema_aware_create_function.impl(**kwargs): the arguments of
\* npl_client.create_protocol, or the error dict
create_impl(f, kwargs) ==
    LET parties_dict == build_parties(f.parties, kwargs)
        rest == kwargs_pop(kwargs, PartyKeys(f.parties))
        built == unflatten_rest(rest, include_nullable(f.params, rest, Building({})))
    IN IF built.raised
       THEN [NoInvocation EXCEPT !.status = "error"]
       ELSE [NoInvocation EXCEPT !.status = "called", !.parties = parties_dict,
                                 !.data = built.data]

\* _create_action_execution_function.impl(**kwargs): the arguments of
\* npl_client.execute_action; params is kwargs as it is
action_impl(f, kwargs) ==
    LET rest == kwargs_pop(kwargs, {<<"instance", "id">>, <<"party">>})
    IN [NoInvocation EXCEPT
            !.status = "called",
            !.instance_id = kwargs_get(kwargs, <<"instance", "id">>),
            !.party = kwargs_get(kwargs, <<"party">>),
            !.data = {[path |-> <<rest[i].name>>, value |-> rest[i].value] :
                          i \in 1 .. Len(rest)}]

\* the generated function called with args
call_function(f, args) ==
    LET kwargs == build_kwargs(f.sorted_specs, args)
        result == IF f.op = "create" THEN create_impl(f, kwargs)
                  ELSE action_impl(f, kwargs)
    IN [result EXCEPT !.args = args]

(***************************************************************************)
(* tools.py: NPLToolGenerator                                              *)
(***************************************************************************)
Packages == {"p1", "p2", "p3"}

\* the package lists generate_tools is called with
PackageLists ==
    {<<>>, <<"p1">>, <<"p2">>, <<"p1", "p2">>, <<"p1", "p2", "p3">>}

\* the packages of a list
PackagesOf(packages) == {packages[i] : i \in 1 .. Len(packages)}

\* the OpenAPI documents get_openapi_spec may return: one without paths, one
\* whose compilation raises, one with a creation path
Documents == {"no_paths", "malformed", "paths"}
\* get_openapi_spec returns a document or raises
FetchOutcomes == Documents \cup {"raise"}

\* the TTL written into _is_cache_valid
ToolsCacheTTL == 300

\* the tools compiled from a package's document
CompileTools(package, doc) ==
    IF doc = "paths"
    THEN PathTools(<<"", "npl", package, "Protocol", "">>, {"post"}, package)
    ELSE <<>>

\* NPLToolGenerator._generate_tools_for_package at time t; fetched: what
\* get_openapi_spec does if it is called
generate_tools_for_package(package, c, fetched, t) ==
    LET got == Cache_get(c, package, t)
    IN IF got.value = "none" /\ fetched = "raise"
       THEN [raised |-> TRUE, tools |-> <<>>, cache |-> got.cache]
       ELSE LET doc == IF got.value = "none" THEN fetched ELSE got.value
                c2 == IF got.value = "none"
                      THEN Cache_set(got.cache, package, doc, NoTTL, cache_ttl, t)
                      ELSE got.cache
            IN IF doc = "malformed"
               THEN [raised |-> TRUE, tools |-> <<>>, cache |-> c2]
               ELSE [raised |-> FALSE, tools |-> CompileTools(package, doc),
                     cache |-> c2]

\* a loop without the try / except: the first failing package ends it
RECURSIVE ProcessPackagesAbort(_, _, _, _)
ProcessPackagesAbort(packages, c, fetch, t) ==
    IF packages = <<>>
    THEN [all_tools |-> <<>>, cache |-> c, yields |-> <<>>]
    ELSE LET r == generate_tools_for_package(Head(packages), c, fetch[Head(packages)], t)
             rest == ProcessPackagesAbort(Tail(packages), r.cache, fetch, t)
         IN IF r.raised \/ "failed" \in {rest.yields[i] : i \in 1 .. Len(rest.yields)}
            THEN [all_tools |-> <<>>, cache |-> rest.cache,
                  yields |-> <<IF r.raised THEN "failed"
                               ELSE IF r.tools = <<>> THEN "empty" ELSE "tools">>
                             \o rest.yields]
            ELSE [all_tools |-> r.tools \o rest.all_tools, cache |-> rest.cache,
                  yields |-> <<IF r.tools = <<>> THEN "empty" ELSE "tools">>
                             \o rest.yields]

\* the loop of generate_tools over the packages: try / except / continue
RECURSIVE ProcessPackages(_, _, _, _)
ProcessPackages(packages, c, fetch, t) ==
    IF packages = <<>>
    THEN [all_tools |-> <<>>, cache |-> c, yields |-> <<>>]
    ELSE LET r == generate_tools_for_package(Head(packages), c, fetch[Head(packages)], t)
             rest == ProcessPackages(Tail(packages), r.cache, fetch, t)
         IN [all_tools |-> r.tools \o rest.all_tools,
             cache |-> rest.cache,
             yields |-> <<IF r.raised THEN "failed"
                          ELSE IF r.tools = <<>> THEN "empty" ELSE "tools">>
                        \o rest.yields]

\* NPLToolGenerator._is_cache_valid at time t
is_cache_valid(t) ==
    IF tools_cache = <<>> THEN FALSE ELSE t - cache_time < ToolsCacheTTL

\* a generate_tools that caches its list before it looks whether it is empty
CacheResultsBeforeCheck(all_tools, t) ==
    [tools_cache |-> <<all_tools>>, cache_time |-> t]

\* "if not all_tools: raise ToolDiscoveryError" and, after it, "# Cache
\* results": the (_tools_cache, _cache_time) generate_tools leaves at time t
CacheResults(all_tools, t) ==
    IF all_tools = <<>>
    THEN [tools_cache |-> tools_cache, cache_time |-> cache_time]
    ELSE [tools_cache |-> <<all_tools>>, cache_time |-> t]

NoGen ==
    [status |-> "none", error |-> "none", tools |-> <<>>, from_cache |-> FALSE,
     force_refresh |-> FALSE, packages |-> <<>>, yields |-> <<>>]

GeneratorIdle ==
    /\ now = 0
    /\ cache_ttl = ToolsCacheTTL
    /\ cache = [p \in Packages |-> NoItem]
    /\ tools_cache = <<>>
    /\ cache_time = 0
    /\ gen = NoGen

\* NPLToolGenerator.__init__ with a configured cache_ttl
GeneratorInit ==
    /\ now = 0
    /\ cache_ttl \in {ToolsCacheTTL - TimeStep, ToolsCacheTTL, ToolsCacheTTL + TimeStep}
    /\ cache = [p \in Packages |-> NoItem]
    /\ tools_cache = <<>>
    /\ cache_time = 0
    /\ gen = NoGen

\* self._schemas before any document was compiled
NoSchemas == [ref \in {} |-> EmptySchema]

\* no path looked at yet
NoRoute == [package |-> "none", path |-> <<>>, methods |-> {}, done |-> FALSE,
            tools |-> <<>>]

\* nothing compiled or invoked
CompilerIdle ==
    /\ cache_op = NoCacheOp
    /\ route = NoRoute
    /\ schemas = NoSchemas
    /\ schema = EmptySchema
    /\ func = NoFunc
    /\ invoked = NoInvocation

\* no retry loop of retry.py in progress
SupportIdle ==
    /\ backoff = NoBackoff
    /\ cache_threads = NoThreads
    /\ collector = NoCollector

ClientIdle ==
    /\ auth_token = InitialToken
    /\ authorization = Bearer(InitialToken)
    /\ max_retries = 3
    /\ token_refresh_callback = FALSE
    /\ refresh_count = 0
    /\ begun = 0
    /\ calls = [c \in Calls |-> IdleCall]

\* NPLToolGenerator.generate_tools(packages, force_refresh); fetch: what
\* get_openapi_spec does for each package if it is called
GenerateTools ==
    /\ \E packages \in PackageLists, force_refresh \in BOOLEAN :
         LET call == [NoGen EXCEPT !.force_refresh = force_refresh,
                                   !.packages = packages]
         IN IF ~force_refresh /\ is_cache_valid(now)
            THEN /\ gen' = [call EXCEPT !.status = "returned", !.from_cache = TRUE,
                                        !.tools = tools_cache[1]]
                 /\ UNCHANGED <<cache, tools_cache, cache_time>>
            ELSE \E fetch \in {f \in [PackagesOf(packages) -> FetchOutcomes] :
                                \A q \in PackagesOf(packages) :
                                    Cache_get(cache, q, now).value # "none"
                                        => f[q] = "raise"} :
                 LET r == ProcessPackages(packages, cache, fetch, now)
                     cached == CacheResults(r.all_tools, now)
                 IN /\ cache' = r.cache
                    /\ tools_cache' = cached.tools_cache
                    /\ cache_time' = cached.cache_time
                    /\ IF r.all_tools = <<>>
                       THEN gen' = [call EXCEPT !.status = "raised",
                                                !.error = "ToolDiscoveryError",
                                                !.yields = r.yields]
                       ELSE gen' = [call EXCEPT !.status = "returned",
                                                !.tools = r.all_tools,
                                                !.yields = r.yields]
    /\ UNCHANGED <<now, cache_ttl>>
    /\ UNCHANGED client_vars
    /\ UNCHANGED <<utils_vars, compiler_vars, support_vars>>

\* time passes
Tick ==
    /\ now + TimeStep <= MaxTime
    /\ now' = now + TimeStep
    /\ UNCHANGED <<cache_ttl, cache, tools_cache, cache_time, gen>>
    /\ UNCHANGED client_vars
    /\ UNCHANGED <<utils_vars, compiler_vars, support_vars>>

\* sequential use of the client, any engine behaviour
BeginCall(c) == Begin(c, FALSE)
Attempt(c) == Iteration(c, FALSE)

\* the caller has taken the outcome of its call
EndCall(c) ==
    /\ calls[c].pc \in {"returned", "raised"}
    /\ calls' = [calls EXCEPT ![c] = IdleCall]
    /\ UNCHANGED <<auth_token, authorization, max_retries, token_refresh_callback,
                   refresh_count, begun>>
    /\ UNCHANGED generator_vars
    /\ UNCHANGED <<utils_vars, compiler_vars, support_vars>>

Next ==
    \/ \E c \in Calls : BeginCall(c)
    \/ \E c \in Calls : Attempt(c)
    \/ \E c \in Calls : EndCall(c)

Init == ClientInit /\ GeneratorIdle /\ CompilerIdle /\ SupportIdle

Spec == Init /\ [][Next]_vars

\* two callers sharing the client while the held token has expired
BeginConcurrentCall(c) == Begin(c, TRUE)
AttemptOnExpiry(c) == Iteration(c, TRUE)

NextConcurrent ==
    \/ \E c \in Calls : BeginConcurrentCall(c)
    \/ \E c \in Calls : AttemptOnExpiry(c)

ConcurrentSpec == Init /\ [][NextConcurrent]_vars

\* the tokens the owner of the client passes to set_auth_token (None included)
OwnerTokens == {NoToken, InitialToken}

\* the owner of the client calls set_auth_token(token) between two calls
SetAuthToken(token) ==
    /\ \A c \in Calls : calls[c].pc # "running"
    /\ LET cl == set_auth_token(token)
       IN /\ auth_token' = cl.auth_token
          /\ authorization' = cl.authorization
    /\ UNCHANGED <<max_retries, token_refresh_callback, refresh_count, begun, calls>>
    /\ UNCHANGED generator_vars
    /\ UNCHANGED <<utils_vars, compiler_vars, support_vars>>

\* sequential use of the client by an owner who also replaces the token
AuthNext ==
    \/ \E c \in Calls : BeginCall(c)
    \/ \E c \in Calls : Attempt(c)
    \/ \E c \in Calls : EndCall(c)
    \/ \E token \in OwnerTokens : SetAuthToken(token)

AuthSpec == Init /\ [][AuthNext]_vars

\* the tool generator on its own
ToolsInit == ClientIdle /\ GeneratorInit /\ CompilerIdle /\ SupportIdle

ToolsNext ==
    \/ GenerateTools
    \/ Tick

ToolsSpec == ToolsInit /\ [][ToolsNext]_vars

(***************************************************************************)
(* The Cache of utils.py on its own                                        *)
(***************************************************************************)
\* the keys and values the cache is used with, and the ttl arguments of set
CacheKeys == {"p1", "p2"}
CacheValues == {"no_paths", "paths"}
CacheTTLs == {NoTTL, TimeStep}

CacheInit ==
    /\ ClientIdle
    /\ GeneratorIdle
    /\ CompilerIdle
    /\ SupportIdle

\* the record of an operation and of what it returned
CacheOp(op, key, value, item) ==
    [n |-> cache_op.n + 1, op |-> op, key |-> key, value |-> value, item |-> item]

\* cache.get(key)
CacheGet(key) ==
    /\ cache_op.n < MaxCacheOps
    /\ LET r == Cache_get(cache, key, now)
       IN /\ cache' = r.cache
          /\ cache_op' = CacheOp("get", key, r.value, cache[key])
    /\ UNCHANGED <<now, cache_ttl, tools_cache, cache_time, gen, route>>
    /\ UNCHANGED <<client_vars, compiler_vars, support_vars>>

\* cache.set(key, value, ttl)
CacheSet(key, value, ttl) ==
    /\ cache_op.n < MaxCacheOps
    /\ cache' = Cache_set(cache, key, value, ttl, cache_ttl, now)
    /\ cache_op' = CacheOp("set", key, "none", cache[key])
    /\ UNCHANGED <<now, cache_ttl, tools_cache, cache_time, gen, route>>
    /\ UNCHANGED <<client_vars, compiler_vars, support_vars>>

\* cache.invalidate(key)
CacheInvalidate(key) ==
    /\ cache_op.n < MaxCacheOps
    /\ cache' = Cache_invalidate(cache, key)
    /\ cache_op' = CacheOp("invalidate", key, "none", cache[key])
    /\ UNCHANGED <<now, cache_ttl, tools_cache, cache_time, gen, route>>
    /\ UNCHANGED <<client_vars, compiler_vars, support_vars>>

\* cache.clear()
CacheClear ==
    /\ cache_op.n < MaxCacheOps
    /\ cache' = Cache_clear(cache)
    /\ cache_op' = CacheOp("clear", "none", "none", NoItem)
    /\ UNCHANGED <<now, cache_ttl, tools_cache, cache_time, gen, route>>
    /\ UNCHANGED <<client_vars, compiler_vars, support_vars>>

CacheNext ==
    \/ \E key \in CacheKeys : CacheGet(key)
    \/ \E key \in CacheKeys, value \in CacheValues, ttl \in CacheTTLs :
           CacheSet(key, value, ttl)
    \/ \E key \in CacheKeys : CacheInvalidate(key)
    \/ CacheClear
    \/ Tick

CacheSpec == CacheInit /\ [][CacheNext]_vars

(***************************************************************************)
(* The path loop of _generate_tools_for_package on one path                *)
(***************************************************************************)
\* what stands in front of the protocol segments of a path
PathPrefixes ==
    {<<"", "npl", "p1">>, <<"", "npl", "p2">>, <<"", "api", "p1">>, <<"npl", "p1">>}
\* the segments that follow
Segments == {"", "-", "Protocol", "{id}", "action"}

RECURSIVE SegmentSeqs(_)
SegmentSeqs(n) ==
    IF n = 0 THEN {<<>>}
    ELSE LET shorter == SegmentSeqs(n - 1)
         IN shorter \cup {Append(q, x) : q \in {r \in shorter : Len(r) = n - 1},
                                          x \in Segments}

\* the OpenAPI paths of the model
Paths == {prefix \o tail : prefix \in PathPrefixes, tail \in SegmentSeqs(MaxSegments)}
\* the methods a path entry may list
MethodSets == {{"get"}, {"post"}, {"get", "post"}}

\* a document of package p1 holds the path with these methods
PathInit ==
    /\ ClientIdle
    /\ GeneratorIdle
    /\ cache_op = NoCacheOp
    /\ \E path \in Paths, methods \in MethodSets :
         route = [NoRoute EXCEPT !.package = "p1", !.path = path,
                                 !.methods = methods]
    /\ schemas = NoSchemas
    /\ schema = EmptySchema
    /\ func = NoFunc
    /\ invoked = NoInvocation
    /\ SupportIdle

\* one iteration of the loop over spec["paths"]
CompilePath ==
    /\ ~route.done
    /\ route' = [route EXCEPT !.done = TRUE,
                              !.tools = PathTools(route.path, route.methods,
                                                  route.package)]
    /\ UNCHANGED cache_op
    /\ UNCHANGED <<client_vars, generator_vars, compiler_vars, support_vars>>

PathNext == CompilePath

PathSpec == PathInit /\ [][PathNext]_vars

(***************************************************************************)
(* The compilation of one method's request body schema into a function     *)
(***************************************************************************)
\* an object schema
ObjectSchema(properties, required) ==
    [type |-> "object", has_properties |-> TRUE, properties |-> properties,
     required |-> required, enum |-> FALSE]

\* prop_defs: a primitive, and a "$ref"
Direct(nullable) == [ref |-> NoRef, type |-> "string", nullable |-> nullable]
Ref(name, nullable) == [ref |-> name, type |-> "none", nullable |-> nullable]

\* the property names of the request body schemas, in their order
PropertyNameLists ==
    {<<>>,
     <<<<"a">>>>, <<<<"b">>>>, <<<<"a", "b">>>>,
     <<<<"a">>, <<"b">>>>, <<<<"b">>, <<"a">>>>,
     <<<<"a">>, <<"a", "b">>>>, <<<<"a", "b">>, <<"a">>>>,
     <<<<"b">>, <<"a", "b">>>>, <<<<"a", "b">>, <<"b">>>>}

\* what a property may be: its prop_def and whether the schema requires it
PropertyKinds ==
    {[def |-> Direct(FALSE), required |-> TRUE],
     [def |-> Direct(TRUE), required |-> TRUE],
     [def |-> Direct(FALSE), required |-> FALSE],
     [def |-> Direct(TRUE), required |-> FALSE],
     [def |-> Ref("Inner", FALSE), required |-> TRUE],
     [def |-> Ref("Color", FALSE), required |-> TRUE],
     [def |-> Ref("Missing", TRUE), required |-> FALSE]}

\* the request body schemas: properties named by names, of the given kinds
BodySchema(names, kinds, with_parties) ==
    ObjectSchema((IF with_parties
                  THEN <<[name |-> PartiesKey, def |-> Ref("Parties", FALSE)]>>
                  ELSE <<>>)
                 \o [i \in 1 .. Len(names) |-> [name |-> names[i],
                                                  def |-> kinds[i].def]],
                 {names[i] : i \in {j \in 1 .. Len(names) : kinds[j].required}}
                 \cup (IF with_parties THEN {PartiesKey} ELSE {}))

\* components.schemas: a nested object, an enum and the parties
InnerSchemas ==
    {ObjectSchema(<<[name |-> <<"a">>, def |-> Direct(FALSE)],
                    [name |-> <<"b">>, def |-> Direct(nullable)]>>,
                  {<<"a">>, <<"b">>}) : nullable \in BOOLEAN}
ColorSchema ==
    [type |-> "string", has_properties |-> FALSE, properties |-> <<>>,
     required |-> {}, enum |-> TRUE]
Role(name) == [name |-> <<name>>, def |-> Ref("Claims", FALSE)]
PartiesSchemas ==
    {ObjectSchema(<<Role("seller")>>, {<<"seller">>}),
     ObjectSchema(<<Role("seller"), Role("buyer")>>, {<<"seller">>}),
     ObjectSchema(<<Role("buyer"), Role("seller")>>, {})}

CompilerInit ==
    /\ ClientIdle
    /\ GeneratorIdle
    /\ cache_op = NoCacheOp
    /\ route = NoRoute
    /\ \E inner \in InnerSchemas, parties \in PartiesSchemas :
         schemas = [ref \in {"Inner", "Color", "Parties"} |->
                       CASE ref = "Inner" -> inner
                         [] ref = "Color" -> ColorSchema
                         [] OTHER -> parties]
    /\ \E names \in PropertyNameLists, with_parties \in BOOLEAN :
         \E kinds \in [1 .. Len(names) -> PropertyKinds] :
             schema = BodySchema(names, kinds, with_parties)
    /\ func = NoFunc
    /\ invoked = NoInvocation
    /\ SupportIdle

\* the path is a creation path: the function is built from its POST method
CreateCreationFunction ==
    /\ func.status = "none"
    /\ func' = create_schema_aware_create_function(schema, schemas)
    /\ UNCHANGED <<schemas, schema, invoked>>
    /\ UNCHANGED <<client_vars, generator_vars, utils_vars, support_vars>>

\* the path is an action path
CreateActionFunction ==
    /\ func.status = "none"
    /\ func' = create_action_execution_function(schema, schemas)
    /\ UNCHANGED <<schemas, schema, invoked>>
    /\ UNCHANGED <<client_vars, generator_vars, utils_vars, support_vars>>

\* the values callers pass: one per data parameter, in the order of params
DataValues == <<"v1", "v2", "v3", "v4">>

\* what a caller may bind to the parameter spec of f: a parameter with a
\* default may be left out (None)
ValuesFor(f, spec) ==
    (IF IsRequiredParam(spec) THEN {} ELSE {None})
    \cup (IF f.op = "create" /\ spec.name \in PartyKeys(f.parties)
          THEN IF spec.name[Len(spec.name)] = "organization"
               THEN {"acme", ""} ELSE {"sales"}
          ELSE IF f.op = "action" /\ spec.name = <<"instance", "id">> THEN {"id1"}
          ELSE IF f.op = "action" /\ spec.name = <<"party">> THEN {"seller"}
          ELSE {DataValues[i] : i \in {j \in 1 .. Len(f.params) :
                                           f.params[j].name = spec.name}})

\* the argument lists for the parameters specs
RECURSIVE ArgLists(_, _)
ArgLists(f, specs) ==
    IF specs = <<>> THEN {<<>>}
    ELSE {<<value>> \o rest : value \in ValuesFor(f, Head(specs)),
                               rest \in ArgLists(f, Tail(specs))}

\* the framework calls the generated function
InvokeFunction ==
    /\ func.status = "created"
    /\ invoked.status = "none"
    /\ \E args \in ArgLists(func, func.sorted_specs) :
         invoked' = call_function(func, args)
    /\ UNCHANGED <<schemas, schema, func>>
    /\ UNCHANGED <<client_vars, generator_vars, utils_vars, support_vars>>

CompilerNext ==
    \/ CreateCreationFunction
    \/ CreateActionFunction
    \/ InvokeFunction

CompilerSpec == CompilerInit /\ [][CompilerNext]_vars

(***************************************************************************)
(* One Cache shared by concurrent callers.  The Cache has no lock: a step   *)
(* is one access to the dict, and the callers' steps interleave.           *)
(***************************************************************************)
ThreadInit ==
    /\ ClientIdle
    /\ GeneratorIdle
    /\ CompilerIdle
    /\ SupportIdle

\* the caller enters an operation
ThreadBegins(th, op, key) ==
    [NoThread EXCEPT !.op = op, !.key = key, !.ops = cache_threads.of[th].ops + 1]

ThreadMayBegin(th) ==
    /\ cache_threads.of[th].pc \in {"idle", "done"}
    /\ cache_threads.of[th].ops < MaxThreadOps

\* cache.set(key, value, ttl): the assignment to the dict
ThreadSet(th, key, value, ttl) ==
    /\ ThreadMayBegin(th)
    /\ cache' = Cache_set(cache, key, value, ttl, cache_ttl, now)
    /\ cache_threads' =
           [of |-> [cache_threads.of EXCEPT
                       ![th] = [ThreadBegins(th, "set", key) EXCEPT !.pc = "done"]],
            written |-> cache_threads.written \cup {<<key, value>>}]
    /\ UNCHANGED <<now, cache_ttl, tools_cache, cache_time, gen>>
    /\ UNCHANGED <<client_vars, utils_vars, compiler_vars, backoff, collector>>

\* cache.clear()
ThreadClear(th) ==
    /\ ThreadMayBegin(th)
    /\ cache' = Cache_clear(cache)
    /\ cache_threads' =
           [cache_threads EXCEPT
               !.of[th] = [ThreadBegins(th, "clear", "none") EXCEPT !.pc = "done"]]
    /\ UNCHANGED <<now, cache_ttl, tools_cache, cache_time, gen>>
    /\ UNCHANGED <<client_vars, utils_vars, compiler_vars, backoff, collector>>

\* cache.get(key), "if key not in self._cache: return None"
ThreadGetCheck(th, key) ==
    /\ ThreadMayBegin(th)
    /\ cache_threads' =
           [cache_threads EXCEPT
               !.of[th] = IF Cache_contains(cache, key)
                          THEN [ThreadBegins(th, "get", key) EXCEPT !.pc = "get_read"]
                          ELSE ThreadReturns(ThreadBegins(th, "get", key), "none", now)]
    /\ UNCHANGED generator_vars
    /\ UNCHANGED <<client_vars, utils_vars, compiler_vars, backoff, collector>>

\* "item = self._cache[key]"
ThreadGetRead(th) ==
    /\ cache_threads.of[th].pc = "get_read"
    /\ LET t == cache_threads.of[th]
       IN cache_threads' =
             [cache_threads EXCEPT
                 !.of[th] = IF Cache_contains(cache, t.key)
                            THEN [t EXCEPT !.pc = "get_expired", !.item = cache[t.key]]
                            ELSE ThreadRaises(t)]
    /\ UNCHANGED generator_vars
    /\ UNCHANGED <<client_vars, utils_vars, compiler_vars, backoff, collector>>

\* "if item.is_expired():" and, if it is not, "return item.value"
ThreadGetExpired(th) ==
    /\ cache_threads.of[th].pc = "get_expired"
    /\ LET t == cache_threads.of[th]
       IN cache_threads' =
             [cache_threads EXCEPT
                 !.of[th] = IF is_expired(t.item, now)
                            THEN [t EXCEPT !.pc = "get_del"]
                            ELSE ThreadReturns(t, t.item.value, now)]
    /\ UNCHANGED generator_vars
    /\ UNCHANGED <<client_vars, utils_vars, compiler_vars, backoff, collector>>

\* "del self._cache[key]" and "return None" of get
ThreadGetDel(th) ==
    /\ cache_threads.of[th].pc = "get_del"
    /\ LET t == cache_threads.of[th]
       IN IF Cache_contains(cache, t.key)
          THEN /\ cache' = [cache EXCEPT ![t.key] = NoItem]
               /\ cache_threads' =
                      [cache_threads EXCEPT !.of[th] = ThreadReturns(t, "none", now)]
          ELSE /\ cache' = cache
               /\ cache_threads' = [cache_threads EXCEPT !.of[th] = ThreadRaises(t)]
    /\ UNCHANGED <<now, cache_ttl, tools_cache, cache_time, gen>>
    /\ UNCHANGED <<client_vars, utils_vars, compiler_vars, backoff, collector>>

\* cache.invalidate(key), "if key in self._cache:"
ThreadInvalidateCheck(th, key) ==
    /\ ThreadMayBegin(th)
    /\ cache_threads' =
           [cache_threads EXCEPT
               !.of[th] = IF Cache_contains(cache, key)
                          THEN [ThreadBegins(th, "invalidate", key)
                                    EXCEPT !.pc = "invalidate_del"]
                          ELSE [ThreadBegins(th, "invalidate", key) EXCEPT !.pc = "done"]]
    /\ UNCHANGED generator_vars
    /\ UNCHANGED <<client_vars, utils_vars, compiler_vars, backoff, collector>>

\* "del self._cache[key]" of invalidate
ThreadInvalidateDel(th) ==
    /\ cache_threads.of[th].pc = "invalidate_del"
    /\ LET t == cache_threads.of[th]
       IN IF Cache_contains(cache, t.key)
          THEN /\ cache' = [cache EXCEPT ![t.key] = NoItem]
               /\ cache_threads' =
                      [cache_threads EXCEPT !.of[th] = [t EXCEPT !.pc = "done"]]
          ELSE /\ cache' = cache
               /\ cache_threads' = [cache_threads EXCEPT !.of[th] = ThreadRaises(t)]
    /\ UNCHANGED <<now, cache_ttl, tools_cache, cache_time, gen>>
    /\ UNCHANGED <<client_vars, utils_vars, compiler_vars, backoff, collector>>

ThreadNext ==
    \/ \E th \in Calls, key \in CacheKeys, value \in CacheValues, ttl \in CacheTTLs :
           ThreadSet(th, key, value, ttl)
    \/ \E th \in Calls : ThreadClear(th)
    \/ \E th \in Calls, key \in CacheKeys : ThreadGetCheck(th, key)
    \/ \E th \in Calls : ThreadGetRead(th)
    \/ \E th \in Calls : ThreadGetExpired(th)
    \/ \E th \in Calls : ThreadGetDel(th)
    \/ \E th \in Calls, key \in CacheKeys : ThreadInvalidateCheck(th, key)
    \/ \E th \in Calls : ThreadInvalidateDel(th)
    \/ Tick

ThreadSpec == ThreadInit /\ [][ThreadNext]_vars

(***************************************************************************)
(* A MetricsCollector on its own                                           *)
(***************************************************************************)
CollectorInit ==
    /\ ClientIdle
    /\ GeneratorIdle
    /\ CompilerIdle
    /\ backoff = NoBackoff
    /\ cache_threads = NoThreads
    /\ collector = NoCollector

\* the limits get_errors is called with: the default 10 among them
Limits == {0, 1, 10, max_errors + 50}

Done(op) == [collector EXCEPT !.op = op, !.limit = NoLimit, !.got = <<>>]

\* metrics.record_error(...)
CollectorRecordError ==
    /\ collector.recorded < MaxRecorded
    /\ collector' = [Done("record_error") EXCEPT
                        !.errors = record_error(@, collector.recorded + 1),
                        !.recorded = @ + 1,
                        !.since_reset = @ + 1]
    /\ UNCHANGED <<client_vars, generator_vars, utils_vars, compiler_vars,
                   backoff, cache_threads>>

\* metrics.increment(...)
CollectorIncrement ==
    /\ collector.counters < MaxMetricOps
    /\ collector' = [Done("increment") EXCEPT !.counters = @ + 1]
    /\ UNCHANGED <<client_vars, generator_vars, utils_vars, compiler_vars,
                   backoff, cache_threads>>

\* metrics.record_latency(...)
CollectorRecordLatency ==
    /\ collector.histograms < MaxMetricOps
    /\ collector' = [Done("record_latency") EXCEPT
                        !.histograms = Min(@ + 1, max_latencies)]
    /\ UNCHANGED <<client_vars, generator_vars, utils_vars, compiler_vars,
                   backoff, cache_threads>>

\* metrics.get_errors(limit)
CollectorGetErrors(limit) ==
    /\ collector.op # "get_errors"
    /\ collector' = [collector EXCEPT !.op = "get_errors", !.limit = limit,
                                      !.got = get_errors(collector.errors, limit)]
    /\ UNCHANGED <<client_vars, generator_vars, utils_vars, compiler_vars,
                   backoff, cache_threads>>

\* metrics.reset()
CollectorReset ==
    /\ collector.op # "reset"
    /\ collector' = [Done("reset") EXCEPT !.errors = <<>>, !.counters = 0,
                                          !.histograms = 0, !.since_reset = 0]
    /\ UNCHANGED <<client_vars, generator_vars, utils_vars, compiler_vars,
                   backoff, cache_threads>>

CollectorNext ==
    \/ CollectorRecordError
    \/ CollectorIncrement
    \/ CollectorRecordLatency
    \/ \E limit \in Limits : CollectorGetErrors(limit)
    \/ CollectorReset

CollectorSpec == CollectorInit /\ [][CollectorNext]_vars

(***************************************************************************)
(* The backoff of a retry loop: the wrapper of retry_with_backoff and the   *)
(* except clause of NPLClient._make_request                                *)
(***************************************************************************)
\* the parameters of the two loops: the decorator is applied with its
\* defaults or with other delays and bases, _make_request has them written in
BackoffInit ==
    /\ ClientIdle
    /\ GeneratorIdle
    /\ CompilerIdle
    /\ cache_threads = NoThreads
    /\ collector = NoCollector
    /\ \E n \in 0 .. MaxBackoffRetries :
         \/ \E initial_delay \in {DefaultInitialDelay \div 2, DefaultInitialDelay},
               exponential_base \in {1, DefaultExponentialBase, 3},
               max_delay \in {250, DefaultMaxDelay} :
              backoff = [NoBackoff EXCEPT !.site = "retry_with_backoff",
                                          !.pc = "running",
                                          !.max_retries = n,
                                          !.initial_delay = initial_delay,
                                          !.exponential_base = exponential_base,
                                          !.max_delay = max_delay]
         \/ backoff = [NoBackoff EXCEPT !.site = "_make_request",
                                        !.pc = "running",
                                        !.max_retries = n,
                                        !.initial_delay = DefaultInitialDelay,
                                        !.exponential_base = DefaultExponentialBase,
                                        !.max_delay = DefaultMaxDelay]

\* the attempt returned
AttemptReturns ==
    /\ backoff.pc = "running"
    /\ backoff' = [backoff EXCEPT !.pc = "returned"]
    /\ UNCHANGED <<client_vars, generator_vars, utils_vars, compiler_vars, cache_threads, collector>>

\* the attempt raised and the loop does not retry: the exception is not
\* retryable or no attempt is left
AttemptRaises(outcome) ==
    /\ backoff.pc = "running"
    /\ ~(RetriesRemain(backoff.attempt, backoff.max_retries) /\ outcome = "retryable")
    /\ backoff' = [backoff EXCEPT !.pc = "raised"]
    /\ UNCHANGED <<client_vars, generator_vars, utils_vars, compiler_vars, cache_threads, collector>>

\* the attempt raised a retryable exception and an attempt is left: the loop
\* computes the delay, draws the jitter and sleeps
BackoffSleep ==
    /\ backoff.pc = "running"
    /\ RetriesRemain(backoff.attempt, backoff.max_retries)
    /\ LET delay == backoff_delay(backoff.initial_delay, backoff.exponential_base,
                                  backoff.max_delay, backoff.attempt)
       IN \E jitter \in JitterSamples(delay) :
            backoff' = [backoff EXCEPT !.prev_delay = backoff.delay,
                                       !.delay = delay,
                                       !.jitter = jitter,
                                       !.sleeps = @ + 1,
                                       !.attempt = @ + 1]
    /\ UNCHANGED <<client_vars, generator_vars, utils_vars, compiler_vars, cache_threads, collector>>

BackoffNext ==
    \/ AttemptReturns
    \/ \E outcome \in {"retryable", "non_retryable"} : AttemptRaises(outcome)
    \/ BackoffSleep

BackoffSpec == BackoffInit /\ [][BackoffNext]_vars

(***************************************************************************)
(* Properties                                                              *)
(***************************************************************************)
Ended(k) == k.pc \in {"returned", "raised"}

\* C1: with max_retries = N, a call whose every attempt fails retryably
\* (429 / 5xx response, connection error, timeout) sends exactly N+1 requests
\* and then raises a terminal error; no call ever sends more than N+1 requests.
C1_RetryBound ==
    \A c \in Calls :
        LET k == calls[c]
        IN /\ k.requests <= max_retries + 1
           /\ (Ended(k) /\ k.history # {}
                   /\ k.history \subseteq {"retryable_status", "network"}
                   /\ k.error.type # "CallbackError")
              => /\ k.pc = "raised"
                 /\ k.requests = max_retries + 1
                 /\ k.error.type \in {"NPLClientError", "ServiceUnavailableError"}

C1_Witness ==
    \E c \in Calls :
        /\ calls[c].pc = "raised"
        /\ max_retries = 3
        /\ calls[c].requests = 4
        /\ calls[c].history = {"retryable_status", "network"}

\* C2: a request that retries a 401 after the refresh carries the token the
\* callback returned, and when that retry is answered 2xx the call returns
\* with auth_token and the Authorization header holding the refreshed token.
C2_RefreshOn401 ==
    \A c \in Calls :
        LET k == calls[c]
        IN k.via401
           => /\ k.refreshes >= 1
              /\ k.refreshed # NoToken
              /\ k.sent = Bearer(k.refreshed)
              /\ (k.pc = "returned"
                  => /\ k.cb_token = k.refreshed
                     /\ auth_token = k.refreshed
                     /\ authorization = Bearer(k.refreshed))

C2_Witness ==
    \E c \in Calls :
        /\ calls[c].via401
        /\ calls[c].pc = "returned"
        /\ calls[c].last = Response(200)
        /\ calls[c].requests = 2
        /\ auth_token = calls[c].cb_token
        /\ auth_token # InitialToken

\* C3: a call that returns a 2xx after only retryable failures has sent one
\* request per attempt and recorded one npl.api.retries per failed attempt;
\* with max_retries = 3, one failure then 200 is 2 requests and 1 retry metric.
C3_RetryThenSuccess ==
    \A c \in Calls :
        LET k == calls[c]
        IN (k.pc = "returned"
                /\ k.history \subseteq {"retryable_status", "network", "2xx"})
           => /\ k.last.status \in 200 .. 299
              /\ k.requests = k.attempt + 1
              /\ k.retries_metric = k.attempt
              /\ k.sleeps = k.attempt

C3_Witness ==
    \E c \in Calls :
        /\ max_retries = 3
        /\ calls[c].pc = "returned"
        /\ calls[c].history = {"retryable_status", "2xx"}
        /\ calls[c].last = Response(200)
        /\ calls[c].requests = 2
        /\ calls[c].retries_metric = 1

\* C4: refreshes share the retry budget: no call sends more than N+1 requests
\* or invokes the callback more than 2N times, and a call answered 401 at
\* every attempt ends by raising TokenExpiredError after N+1 requests.
C4_RefreshSharesBudget ==
    \A c \in Calls :
        LET k == calls[c]
        IN /\ k.requests <= max_retries + 1
           /\ k.refreshes <= 2 * max_retries
           /\ (token_refresh_callback /\ Ended(k) /\ k.history = {"401"}
                   /\ k.error.type # "CallbackError")
              => /\ k.pc = "raised"
                 /\ k.error.type = "TokenExpiredError"
                 /\ k.requests = max_retries + 1

C4_Witness ==
    \E c \in Calls :
        /\ token_refresh_callback
        /\ max_retries = 2
        /\ calls[c].pc = "raised"
        /\ calls[c].history = {"401"}
        /\ calls[c].error.type = "TokenExpiredError"
        /\ calls[c].refreshes = 4

\* C5: when the call ends on a response that cannot be retried, the error is
\* TokenExpiredError for 401, ServiceUnavailableError for 503, NPLClientError
\* for any other status, and carries that status and the request URL.
C5_ErrorTaxonomy ==
    \A c \in Calls :
        LET k == calls[c]
        IN (k.pc = "raised" /\ k.last.exc = "none" /\ k.error.type # "CallbackError")
           => /\ k.last.status = 401 => k.error.type = "TokenExpiredError"
              /\ k.last.status = 503 => k.error.type = "ServiceUnavailableError"
              /\ k.last.status \notin {401, 503} => k.error.type = "NPLClientError"
              /\ k.error.status_code = k.last.status
              /\ k.error.url = UrlOf(k.caller)

C5_Witness ==
    \E c \in Calls :
        /\ calls[c].pc = "raised"
        /\ calls[c].last = Response(503)
        /\ calls[c].attempt = 2
        /\ calls[c].error = [type |-> "ServiceUnavailableError", status_code |-> 503,
                             url |-> UrlOf(calls[c].caller)]

\* C6: a call whose every attempt ends in a connection error or a timeout is
\* retried under the max_retries budget and then raises NPLClientError, not
\* the requests exception.
C6_TransportError ==
    \A c \in Calls :
        LET k == calls[c]
        IN (Ended(k) /\ k.history = {"network"} /\ k.error.type # "CallbackError")
           => /\ k.pc = "raised"
              /\ k.error = TransportError(k)
              /\ k.error.type = "NPLClientError"
              /\ k.requests = max_retries + 1
              /\ k.retries_metric = max_retries

C6_Witness ==
    \E c \in Calls :
        /\ max_retries = 2
        /\ calls[c].pc = "raised"
        /\ calls[c].history = {"network"}
        /\ calls[c].last = Exception("Timeout")
        /\ calls[c].requests = 3
        /\ calls[c].error.type = "NPLClientError"

\* C7: two calls issued on one client whose token has expired invoke the
\* refresh callback at most once in total, and both calls succeed.
C7_RefreshCoalesced ==
    (token_refresh_callback /\ max_retries >= 1 /\ begun = 2
         /\ \A c \in Calls : Ended(calls[c]))
    => /\ refresh_count <= 1
       /\ \A c \in Calls : calls[c].pc = "returned"

\* C8: when create_protocol or execute_action raises, the generated tool
\* returns a dict holding both an error and a hint.
C8_ToolErrorAndHint ==
    \A c \in Calls :
        LET k == calls[c]
        IN (k.caller \in {"create_tool", "action_tool"} /\ k.pc = "raised")
           => {"error", "hint"} \subseteq k.tool_result

\* the packages of a list whose yield is "tools", in the order of the list
RECURSIVE Yielding(_, _)
Yielding(packages, yields) ==
    IF packages = <<>> THEN <<>>
    ELSE (IF Head(yields) = "tools" THEN <<Head(packages)>> ELSE <<>>)
         \o Yielding(Tail(packages), Tail(yields))

\* C9: a discovery over a list of packages skips a failing package and returns
\* the tools of the others; it raises ToolDiscoveryError exactly when no
\* package yielded a tool.
C9_PartialFailure ==
    (gen.status # "none" /\ ~gen.from_cache)
    => /\ Len(gen.yields) = Len(gen.packages)
       /\ gen.status = "raised"
          <=> \A i \in 1 .. Len(gen.yields) : gen.yields[i] # "tools"
       /\ gen.status = "raised" => gen.error = "ToolDiscoveryError"
       /\ gen.status = "returned"
          => [j \in 1 .. Len(gen.tools) |-> gen.tools[j].package]
             = Yielding(gen.packages, gen.yields)

C9_Witness ==
    /\ gen.status = "returned"
    /\ ~gen.from_cache
    /\ gen.packages = <<"p1", "p2", "p3">>
    /\ gen.yields = <<"tools", "failed", "tools">>
    /\ Len(gen.tools) = 2

\* C10: generate_tools returns the cached list exactly when force_refresh is
\* false, a list is cached and its age is below the configured cache_ttl.
C10_CacheHonoursTTL ==
    [][now' = now
       => (gen'.from_cache
           <=> (~gen'.force_refresh /\ tools_cache # <<>>
                /\ now - cache_time < cache_ttl))]_vars

\* C11: a get on an entry older than its TTL returns None and removes the entry
\* in the same call; a get on an entry not older than its TTL returns the stored
\* value and keeps the entry; an entry leaves the map only through such a get,
\* invalidate or clear, and enters it only through set.
C11_LazyEviction ==
    [][\A key \in Packages :
          LET item == cache[key]
              present == item # NoItem
              is_op(op) == /\ cache_op'.n = cache_op.n + 1
                           /\ cache_op'.op = op
                           /\ cache_op'.key = key
          IN /\ (is_op("get") /\ present /\ now - item.created_at > item.ttl_seconds)
                => /\ cache_op'.value = "none"
                   /\ cache'[key] = NoItem
             /\ (is_op("get") /\ present /\ now - item.created_at <= item.ttl_seconds)
                => /\ cache_op'.value = item.value
                   /\ cache'[key] = item
             /\ (is_op("get") /\ ~present)
                => /\ cache_op'.value = "none"
                   /\ cache'[key] = NoItem
             /\ (present /\ cache'[key] = NoItem)
                => \/ is_op("get") /\ now - item.created_at > item.ttl_seconds
                   \/ is_op("invalidate")
                   \/ cache_op'.n = cache_op.n + 1 /\ cache_op'.op = "clear"
             /\ (cache'[key] # item /\ cache'[key] # NoItem) => is_op("set")
      ]_vars

C11_Witness ==
    /\ cache_op.op = "get"
    /\ cache_op.item # NoItem
    /\ cache_op.value = "none"
    /\ cache[cache_op.key] = NoItem
    /\ now - cache_op.item.created_at > cache_op.item.ttl_seconds

\* the segments of a path after /npl/{package}/, read leniently: empty
\* segments (a doubled or final slash) and placeholder dashes do not count
NameSegments(path) ==
    LET IsName(x) == x \notin {"", "-"}
    IN SelectSeq(SubSeq(path, 4, Len(path)), IsName)

\* the path is /npl/{package}/{ProtocolName}/
CreationForm(path, package) ==
    /\ Len(path) >= 4
    /\ SubSeq(path, 1, 3) = <<"", "npl", package>>
    /\ Len(NameSegments(path)) = 1

\* the path is /npl/{package}/{ProtocolName}/{id}/{actionName}
ActionForm(path, package) ==
    /\ Len(path) >= 4
    /\ SubSeq(path, 1, 3) = <<"", "npl", package>>
    /\ Len(NameSegments(path)) = 3

\* C12: for a path with a POST operation, a creation tool is produced only if
\* the path is /npl/{package}/{ProtocolName}/, an action tool only if it is
\* /npl/{package}/{ProtocolName}/{id}/{actionName}, and no tool otherwise.
C12_PathForms ==
    route.done
    => \A i \in 1 .. Len(route.tools) :
          LET tool == route.tools[i]
          IN /\ "post" \in route.methods
             /\ tool.op = "create" => CreationForm(route.path, route.package)
             /\ tool.op = "action" => ActionForm(route.path, route.package)

\* the leaf properties of a schema, in the order of its properties: the path
\* of keys that leads to each, and what its own schema says of it
RECURSIVE Leaves(_, _, _, _)
Leaves(props, required, path, defs) ==
    IF props = <<>> THEN <<>>
    ELSE LET prop == Head(props)
             nested == /\ prop.def.ref \in DOMAIN defs
                       /\ defs[prop.def.ref].type = "object"
                       /\ defs[prop.def.ref].has_properties
             here == IF prop.name = PartiesKey THEN <<>>
                     ELSE IF nested
                          THEN Leaves(defs[prop.def.ref].properties,
                                      defs[prop.def.ref].required,
                                      Append(path, prop.name), defs)
                          ELSE <<[path |-> Append(path, prop.name),
                                  required |-> prop.name \in required,
                                  nullable |-> prop.def.nullable]>>
         IN here \o Leaves(Tail(props), required, path, defs)

SchemaLeaves == Leaves(schema.properties, schema.required, <<>>, schemas)

\* the keys of a path joined by "_"
RECURSIVE JoinPath(_)
JoinPath(path) == IF path = <<>> THEN <<>> ELSE Head(path) \o JoinPath(Tail(path))

\* the positions of the parameter called name in the signature
PositionsOf(name) == {i \in 1 .. Len(func.signature) : func.signature[i].name = name}

\* C13: in the synthesized signature a required and nullable property is an
\* optional parameter (default None), a required and non-nullable property is
\* a required parameter, every required parameter precedes every optional one
\* and parameters of one kind are in alphabetical order.
C13_RequiredFirst ==
    func.status = "created"
    => /\ \A i \in 1 .. Len(SchemaLeaves) :
             LET leaf == SchemaLeaves[i]
                 at == PositionsOf(JoinPath(leaf.path))
             IN /\ Cardinality(at) = 1
                /\ \A k \in at :
                      /\ (leaf.required /\ leaf.nullable)
                         => func.signature[k].default_none
                      /\ (leaf.required /\ ~leaf.nullable)
                         => ~func.signature[k].default_none
       /\ \A i, j \in 1 .. Len(func.signature) :
             i < j => /\ ~(func.signature[i].default_none
                           /\ ~func.signature[j].default_none)
                      /\ func.signature[i].default_none = func.signature[j].default_none
                         => NameLess(func.signature[i].name, func.signature[j].name)

C13_Witness ==
    /\ func.status = "created"
    /\ func.op = "create"
    /\ \E i, j \in 1 .. Len(SchemaLeaves) :
          /\ SchemaLeaves[i].required /\ SchemaLeaves[i].nullable
          /\ SchemaLeaves[j].required /\ ~SchemaLeaves[j].nullable
          /\ NameLess(JoinPath(SchemaLeaves[i].path), JoinPath(SchemaLeaves[j].path))
    /\ Len(func.signature) >= 4

\* the roles of the @parties schema of the request body
SchemaRoles ==
    IF \E i \in 1 .. Len(schema.properties) : schema.properties[i].name = PartiesKey
    THEN {schemas["Parties"].properties[i].name :
              i \in 1 .. Len(schemas["Parties"].properties)}
    ELSE {}

\* C14: every role of the @parties schema yields exactly the two parameters
\* {role}_organization and {role}_department, both required when the role is
\* in the required set of the parties schema and both optional otherwise.
C14_PartyParameters ==
    (func.status = "created" /\ func.op = "create")
    => /\ \A role \in SchemaRoles :
             \A claim \in {"organization", "department"} :
                 LET at == PositionsOf(role \o <<claim>>)
                 IN /\ Cardinality(at) = 1
                    /\ \A k \in at :
                          func.signature[k].default_none
                              <=> role \notin schemas["Parties"].required
       /\ Len(func.signature) = 2 * Cardinality(SchemaRoles) + Len(SchemaLeaves)

C14_Witness ==
    /\ func.status = "created"
    /\ func.op = "create"
    /\ SchemaRoles = {<<"seller">>, <<"buyer">>}
    /\ schemas["Parties"].required = {<<"seller">>}
    /\ \E i, j, k, l \in 1 .. Len(func.signature) :
          /\ func.signature[i] = [name |-> <<"seller", "organization">>,
                                   type |-> "str", default_none |-> FALSE]
          /\ func.signature[j] = [name |-> <<"seller", "department">>,
                                   type |-> "str", default_none |-> FALSE]
          /\ func.signature[k] = [name |-> <<"buyer", "organization">>,
                                   type |-> "str", default_none |-> TRUE]
          /\ func.signature[l] = [name |-> <<"buyer", "department">>,
                                   type |-> "str", default_none |-> TRUE]

\* the argument the last call bound to the parameter called name
ArgOf(name) ==
    invoked.args[CHOOSE i \in 1 .. Len(func.sorted_specs) :
                     func.sorted_specs[i].name = name]

\* the call supplied a value for every data parameter
FullyPopulated ==
    \A i \in 1 .. Len(func.params) : ArgOf(func.params[i].name) = DataValues[i]

\* the data object populated with those values, in the shape of the schema
FullObject ==
    {[path |-> SchemaLeaves[i].path, value |-> DataValues[i]] :
        i \in 1 .. Len(SchemaLeaves)}

\* C15: for a request schema whose flattened names do not collide, calling the
\* creation tool with the leaf values of a fully-populated data object yields a
\* data object equal to the original (same nesting, keys and values).
C15_RoundTrip ==
    (func.op = "create" /\ func.status = "created" /\ invoked.status # "none"
         /\ FullyPopulated)
    => /\ invoked.status = "called"
       /\ invoked.data = FullObject

\* C16: _flatten_schema never returns two parameter descriptors with the same
\* name for one top-level request schema.
C16_UniqueNames ==
    func.status # "none"
    => \A i, j \in 1 .. Len(func.params) :
          i # j => func.params[i].name # func.params[j].name

\* C17: when the caller omits a nullable parameter the request body still holds
\* that field, at its position in the schema, with an explicit null; an omitted
\* optional non-nullable field is absent from the body.
C17_ExplicitNull ==
    invoked.status = "called"
    => \A i \in 1 .. Len(SchemaLeaves) :
          LET leaf == SchemaLeaves[i]
          IN ArgOf(JoinPath(leaf.path)) = None
             => IF leaf.nullable
                THEN [path |-> leaf.path, value |-> None] \in invoked.data
                ELSE \A item \in invoked.data : item.path # leaf.path

\* C18: an action tool rebuilds the arguments that came from flattening a
\* nested object into nested objects, so the params passed to execute_action
\* have the nested shape of the action's schema.
C18_ActionUnflatten ==
    (func.op = "action" /\ invoked.status = "called" /\ FullyPopulated)
    => invoked.data = FullObject

\* C19: the {role}_organization and {role}_department arguments supplied for
\* a party are reassembled into @parties as {role: {claims: {organization:
\* [org], department: [dept]}}}, and no party key appears among the data fields.
C19_PartiesReassembled ==
    (func.op = "create" /\ invoked.status = "called")
    => /\ \A role \in SchemaRoles :
             LET org == ArgOf(role \o <<"organization">>)
                 dept == ArgOf(role \o <<"department">>)
             IN (org # None /\ dept # None)
                => [role |-> role, organization |-> <<org>>, department |-> <<dept>>]
                       \in invoked.parties
       /\ \A item \in invoked.data, role \in SchemaRoles :
             JoinPath(item.path) \notin {role \o <<"organization">>,
                                          role \o <<"department">>}

HeaderFor(token) == IF token # NoToken THEN Bearer(token) ELSE NoHeader

\* C21: after any sequence of construction, set_auth_token calls and token
\* refreshes the session carries an Authorization header iff the held
\* auth_token is non-empty, and it is then "Bearer " + auth_token; every
\* request is sent with the header of the token held when it is sent (the one
\* the callback has just returned if the attempt refreshed first), and
\* set_auth_token(None) removes the header.
C21_AuthorizationHeader ==
    /\ authorization = HeaderFor(auth_token)
    /\ [][/\ authorization' = HeaderFor(auth_token')
          /\ \A c \in Calls :
                calls'[c].requests = calls[c].requests + 1
                    => calls'[c].sent =
                           IF RefreshBeforeRequest(calls[c])
                           THEN HeaderFor(FreshToken(refresh_count))
                           ELSE HeaderFor(auth_token)]_vars

\* a request was sent without a header after set_auth_token(None) removed the
\* header of a token that an earlier request had carried
C21_Witness ==
    /\ auth_token = NoToken
    /\ authorization = NoHeader
    /\ begun = 2
    /\ \E c \in Calls : calls[c].requests > 0 /\ calls[c].sent = NoHeader
    /\ refresh_count > 0

\* C22: the delay computed for attempt n, min(initial_delay * base^n,
\* max_delay), never exceeds max_delay and is not smaller than the delay
\* computed for attempt n - 1, in retry_with_backoff and in _make_request;
\* the jitter added to it lies between 0 and 10% of it.
C22_BackoffGrowth ==
    backoff.sleeps > 0 =>
        /\ backoff.delay <= backoff.max_delay
        /\ backoff.sleeps > 1 => backoff.prev_delay <= backoff.delay
        /\ backoff.delay = backoff_delay(backoff.initial_delay, backoff.exponential_base,
                                         backoff.max_delay, backoff.attempt - 1)
        /\ 0 <= backoff.jitter
        /\ 10 * backoff.jitter <= backoff.delay

\* _make_request sleeps its capped delay of 60 s, after one of 32 s, with a
\* jitter of 10% of it
C22_Witness ==
    /\ backoff.site = "_make_request"
    /\ backoff.sleeps > 1
    /\ backoff.delay = DefaultMaxDelay
    /\ backoff.prev_delay < backoff.delay
    /\ backoff.initial_delay * (backoff.exponential_base ^ (backoff.attempt - 1))
           > backoff.max_delay
    /\ 10 * backoff.jitter = backoff.delay

\* C23 as stated: within one call of _make_request every request after the
\* first is preceded by a backoff sleep: no two requests of the call are sent
\* without a sleep between them.
C23_SleepBeforeEveryRetry ==
    [][\A c \in Calls :
          calls[c].requests > 0 /\ calls'[c].requests = calls[c].requests + 1
              => calls[c].slept]_vars

\* C23 as amended: a request that follows a retryable failure (429, 5xx or a
\* network failure) is preceded by a backoff sleep; a request that follows a
\* 401 answered by a token refresh is sent without one.
C23_SleepBeforeRetryUnless401 ==
    [][\A c \in Calls :
          calls[c].requests > 0 /\ calls'[c].requests = calls[c].requests + 1
              => /\ calls[c].slept <=> calls[c].last # Response(401)
                 /\ calls[c].last # Response(401)
                       => ClassOf(calls[c].last) \in {"network", "retryable_status"}]_vars

\* a call has sent three requests: the second after a sleep, the third after
\* a token refresh and no sleep
C23_Witness ==
    \E c \in Calls :
        /\ calls[c].requests = 3
        /\ calls[c].sleeps = 1
        /\ calls[c].via401
        /\ ~calls[c].slept
        /\ "retryable_status" \in calls[c].history

\* C24: for any interleaving of get, set, invalidate and clear issued by
\* concurrent callers on one Cache, two gets racing on the same expired entry
\* included, no operation raises, and each get returns absent or a value
\* that was set for its key and had not expired.
C24_ConcurrentSafety ==
    \A th \in Calls :
        LET t == cache_threads.of[th]
        IN /\ ~t.raised
           /\ t.pc = "done" /\ t.op = "get" /\ t.result # "none"
                 => /\ <<t.key, t.result>> \in cache_threads.written
                    /\ ~is_expired(t.item, t.returned_at)

\* the errors held are the last ones recorded, in recording order
HoldsMostRecent ==
    /\ Len(collector.errors) = Min(collector.since_reset, max_errors)
    /\ \A i \in 1 .. Len(collector.errors) :
          collector.errors[i] = collector.recorded - Len(collector.errors) + i

\* C25: after any sequence of record_error calls the collector holds at most
\* 100 error records, the most recently recorded ones in recording order;
\* get_errors(limit) returns at most limit of them, most recent first; reset
\* empties counters, histograms and errors.
C25_BoundedErrors ==
    /\ Len(collector.errors) <= max_errors
    /\ HoldsMostRecent
    /\ collector.op = "get_errors"
          => /\ Len(collector.got) <= collector.limit
             /\ \A i \in 1 .. Len(collector.got) :
                   collector.got[i] = collector.recorded - i + 1
    /\ collector.op = "reset"
          => /\ collector.errors = <<>>
             /\ collector.counters = 0
             /\ collector.histograms = 0

\* C26: the refresh callback is invoked only when the call is retrying after
\* a 401 response: in a step of a call the callback is invoked at most once
\* for the 401 it retries and once for the 401 it receives, and a retry
\* caused by a 429/5xx response or a network failure invokes no callback and
\* sends its request with the token held before.
C26_RefreshOnlyAfter401 ==
    [][\A c \in Calls :
          calls[c].pc = "running" =>
              /\ calls'[c].refreshes - calls[c].refreshes
                     <= (IF calls[c].last = Response(401) THEN 1 ELSE 0)
                        + (IF calls'[c].requests > calls[c].requests
                              /\ calls'[c].last = Response(401) THEN 1 ELSE 0)
              /\ ClassOf(calls[c].last) \in {"network", "retryable_status"}
                   /\ calls'[c].requests > calls[c].requests
                     => calls'[c].sent = authorization]_vars

\* a response that is not retried: a 4xx other than 429, a 401 only when no
\* refresh callback is configured
NonRetryableResponse(out) ==
    /\ out.exc = "none"
    /\ out.status \in 400 .. 499
    /\ out.status # 429
    /\ out.status = 401 => ~token_refresh_callback

\* C27: a non-retryable response ends the call on the attempt that received
\* it: the call raises in that step, without a backoff sleep and without a
\* retry metric; received on the first attempt, the call has raised after
\* exactly one request and the held token is unchanged.
C27_NonRetryableEndsCall ==
    [][\A c \in Calls :
          calls'[c].requests = calls[c].requests + 1
          /\ NonRetryableResponse(calls'[c].last)
              => /\ calls'[c].pc = "raised"
                 /\ calls'[c].error.status_code = calls'[c].last.status
                 /\ calls'[c].sleeps = calls[c].sleeps
                 /\ calls'[c].retries_metric = calls[c].retries_metric
                 /\ calls[c].requests = 0
                       => /\ calls'[c].requests = 1
                          /\ calls'[c].sleeps = 0
                          /\ calls'[c].retries_metric = 0
                          /\ calls'[c].refreshes = 0
                          /\ auth_token' = auth_token
                          /\ authorization' = authorization]_vars

\* a call with retries left has raised after one request and no sleep: on a
\* 400 although a refresh callback is configured, or on a 401 without one
C27_Witness ==
    \E c \in Calls :
        /\ calls[c].pc = "raised"
        /\ calls[c].requests = 1
        /\ max_retries >= 1
        /\ calls[c].sleeps = 0
        /\ \/ calls[c].last = Response(400) /\ token_refresh_callback
           \/ calls[c].last = Response(401) /\ ~token_refresh_callback

\* the errors of the typed taxonomy
TypedErrors == {"TokenExpiredError", "ServiceUnavailableError", "NPLClientError"}

\* C28: every call of _make_request ends within its max_retries + 1 attempts,
\* in SUCCESS (a response that is no error, a 2xx, is returned; a 3xx that
\* the session did not follow is let pass here) or in FAIL, and every FAIL is a
\* TokenExpiredError, a ServiceUnavailableError or an NPLClientError: no
\* exception of the transport library and no exception of the refresh
\* callback leaves the call, on whatever attempt it occurs.
C28_TypedTermination ==
    \A c \in Calls :
        LET k == calls[c]
        IN /\ k.attempt <= max_retries
           /\ k.requests <= max_retries + 1
           /\ k.pc = "returned"
                 => k.last.exc = "none" /\ k.last.status \in 200 .. 399
           /\ k.pc = "raised" => k.error.type \in TypedErrors

\* C29: a generate_tools that raises ToolDiscoveryError, with force_refresh
\* or without, leaves _tools_cache and _cache_time as they were, so that the
\* list cached earlier is still valid afterwards if it was valid before.
C29_FailedDiscoveryKeepsCache ==
    [][now' = now /\ gen'.status = "raised"
          => /\ gen'.error = "ToolDiscoveryError"
             /\ tools_cache' = tools_cache
             /\ cache_time' = cache_time
             /\ is_cache_valid(now)' = is_cache_valid(now)]_vars

\* a forced discovery of some package has raised while a list cached earlier
\* is held and is still valid
C29_Witness ==
    /\ gen.status = "raised"
    /\ gen.force_refresh
    /\ gen.packages # <<>>
    /\ tools_cache # <<>>
    /\ tools_cache[1] # <<>>
    /\ is_cache_valid(now)

\* C30: a tool list that generate_tools(packages = P) returns was compiled
\* for P: each of its tools belongs to a package of P, also when the list
\* comes from the cache after a generate_tools with another package list.
C30_CachedForSamePackages ==
    gen.status = "returned" /\ gen.from_cache
        => \A i \in 1 .. Len(gen.tools) :
               gen.tools[i].package \in PackagesOf(gen.packages)

====
